---- MODULE Spec2Model ----
(***************************************************************************)
(* Model of bitwarden_bulk_delete.go: the session orchestrator             *)
(* (runBulkDelete), the batch deletion engine (processItems, deleteWorker, *)
(* the wg.Wait/close goroutine, processResults) and the external agent     *)
(* "bw" seen as a source of nondeterministic outcomes.                     *)
(***************************************************************************)
EXTENDS Integers, Sequences, FiniteSets, TLC

\* ---- bounds of the model ------------------------------------------------
MaxItems == 2      \* longest listing returned by "bw list items"
MaxBatch == 2      \* largest value of the -batch / -b flag

\* item identifiers are opaque strings; a listing of n items has at most n
ItemIds    == 1..MaxItems
BatchSizes == (0 - 1)..MaxBatch
\* goroutine identifiers: one more than the largest batch size
WorkerIds  == 1..(MaxBatch + 1)

\* all sequences over S of length 0..n
RECURSIVE SeqsUpTo(_, _)
SeqsUpTo(S, n) ==
    IF n = 0 THEN {<<>>}
    ELSE LET shorter == SeqsUpTo(S, n - 1)
         IN  shorter \cup {Append(s, x) : s \in {t \in shorter : Len(t) = n - 1}, x \in S}

\* the identifiers of a listing are numbered in order of first appearance:
\* <<1, 2, 1>> stands for every listing whose first and third items share
\* an identifier that the second does not
FirstAppearanceOrder(s) ==
    \A i \in 1..Len(s) : \A x \in 1..(s[i] - 1) : \E j \in 1..(i - 1) : s[j] = x

Listings == {s \in SeqsUpTo(ItemIds, MaxItems) : FirstAppearanceOrder(s)}

\* ---- the confirmation line typed by the user ------------------------------
\* a token is a sequence of characters; a line is a sequence of tokens
Tokens ==
    { <<"y">>, <<"Y">>, <<"y", "e", "s">>, <<"Y", "e", "S">>,
      <<"n">>, <<"N">>, <<"y", "e">>, <<"N", "o">>, <<"y", "e", "s", "s">> }

\* stdin as fmt.Scanln sees it: end of file, or a line of 0..2 tokens
StdinInputs ==
    { [eof |-> TRUE, line |-> <<>>] }
    \cup { [eof |-> FALSE, line |-> l] :
             l \in {<<>>} \cup { <<t>> : t \in Tokens }
                          \cup { <<<<"y">>, t>> : t \in {<<"y">>, <<"n">>} } }

\* value of stdin before confirmDeletion has read anything
NoInput == [eof |-> FALSE, line |-> << <<"-">> >>]

\* what "bw list items" wrote: a JSON array of items, or something else
Payloads ==
    { [valid |-> FALSE, items |-> <<>>] }
    \cup { [valid |-> TRUE, items |-> l] : l \in Listings }

\* exit status of a process that has not exited
NoStatus == 0 - 1

VARIABLES
    bwInPath,      \* the environment: exec.LookPath("bw") finds the executable
    pc,            \* position of runBulkDelete / processItems
    exitStatus,    \* NoStatus while running, then the status the process ended with
    options,       \* CommandOptions
    items,         \* the listing
    stats,         \* DeleteStats
    jobs,          \* buffered channel jobs: [buf, cap, closed]
    results,       \* buffered channel results: [buf, cap, closed]
    wg,            \* sync.WaitGroup counter
    w,             \* loop variable of the spawning loop
    sent,          \* number of items already sent on jobs
    worker,        \* per goroutine: [pc, itemID]
    waiter,        \* position of the wg.Wait/close(results) goroutine
    stdin,         \* what confirmDeletion read, NoInput before it ran
    calls,         \* subprocesses: [sync, list, listResult, delete, returned, failed]
    emitted,       \* per identifier, events sent on results
    observed,      \* per identifier, events received by processResults
    output         \* messages printed: [confirm, cancelled, complete, warnings]

vars == << bwInPath, pc, exitStatus, options, items, stats, jobs, results, wg, w, sent,
           worker, waiter, stdin, calls, emitted, observed, output >>

\* ---- pure functions -------------------------------------------------------
ToLowerChar(c) ==
    CASE c = "Y" -> "y"
      [] c = "E" -> "e"
      [] c = "S" -> "s"
      [] c = "N" -> "n"
      [] c = "O" -> "o"
      [] OTHER   -> c

\* strings.ToLower
ToLower(s) == [i \in 1..Len(s) |-> ToLowerChar(s[i])]

\* fmt.Scanln(&confirm): fails at end of file, on an empty line and on a
\* line with more than one token; otherwise stores the token
ScanlnErr(in) == in.eof \/ Len(in.line) # 1

\* confirmDeletion that takes a failed read for an answer
confirmDeletion_ReadErrorAccepted(in) ==
    IF ScanlnErr(in) THEN TRUE
    ELSE LET confirm == ToLower(in.line[1])
         IN  confirm = <<"y">> \/ confirm = <<"y", "e", "s">>

\* confirmDeletion's return value for a given stdin
confirmDeletion(in) ==
    IF ScanlnErr(in) THEN FALSE
    ELSE LET confirm == ToLower(in.line[1])
         IN  confirm = <<"y">> \/ confirm = <<"y", "e", "s">>

\* parseCommandLineOptions: -batch wins unless it was left at 1 and -b was not
parseCommandLineOptions(batchSize, batchShort) ==
    [batchSize |-> IF batchSize = 1 /\ batchShort # 1 THEN batchShort ELSE batchSize]

ZeroCount == [itemID \in ItemIds |-> 0]

Range(s) == {s[i] : i \in 1..Len(s)}

\* ---- initial state --------------------------------------------------------
Init ==
    /\ bwInPath \in BOOLEAN
    /\ pc = "CheckingAgent"
    /\ exitStatus = NoStatus
    /\ \E batchSize \in BatchSizes, batchShort \in BatchSizes :
           options = parseCommandLineOptions(batchSize, batchShort)
    /\ items = <<>>
    /\ stats = [total |-> 0, completed |-> 0]
    /\ jobs = [buf |-> <<>>, cap |-> 0, closed |-> FALSE]
    /\ results = [buf |-> <<>>, cap |-> 0, closed |-> FALSE]
    /\ wg = 0
    /\ w = 1
    /\ sent = 0
    /\ worker = [id \in WorkerIds |-> [pc |-> "unstarted", itemID |-> 0]]
    /\ waiter = "unstarted"
    /\ stdin = NoInput
    /\ calls = [sync |-> 0, list |-> 0, listResult |-> "none", delete |-> ZeroCount,
                returned |-> ZeroCount, failed |-> {}]
    /\ emitted = ZeroCount
    /\ observed = ZeroCount
    /\ output = [confirm |-> FALSE, cancelled |-> FALSE, complete |-> FALSE,
                 warnings |-> {}]

Running == exitStatus = NoStatus

\* ---- runBulkDelete --------------------------------------------------------
\* checkBitwardenCLI that drops the LookPath error
checkBitwardenCLI_ErrorDropped(found) == FALSE

\* checkBitwardenCLI: an error unless exec.LookPath("bw") finds the executable
checkBitwardenCLI(found) == ~found

\* runBulkDelete, lines 79-81
CheckAgent ==
    /\ Running /\ pc = "CheckingAgent"
    /\ IF checkBitwardenCLI(bwInPath)
       THEN /\ pc' = "Aborted"
            /\ exitStatus' = 1
       ELSE /\ pc' = "PreSyncing"
            /\ UNCHANGED exitStatus
    /\ UNCHANGED << bwInPath, options, items, stats, jobs, results, wg, w, sent, worker,
                    waiter, stdin, calls, emitted, observed, output >>

\* lines 86 and 108: a failed sync prints a warning
Warn(warnings, err, which) == IF err THEN warnings \cup {which} ELSE warnings

\* a runBulkDelete that returns the error of the initial sync
AfterPreSync_Fatal(err) == IF err THEN "Aborted" ELSE "Listing"

\* where runBulkDelete goes after syncBitwarden("before starting") returned err
AfterPreSync(err) == "Listing"

\* runBulkDelete, lines 85-87: one "bw sync", a failure is only a warning
PreSync ==
    /\ Running /\ pc = "PreSyncing"
    /\ calls' = [calls EXCEPT !.sync = @ + 1]
    /\ \E err \in BOOLEAN :
          /\ pc' = AfterPreSync(err)
          /\ output' = [output EXCEPT !.warnings = Warn(@, err, "initial")]
    /\ UNCHANGED << bwInPath, exitStatus, options, items, stats, jobs, results, wg, w, sent,
                    worker, waiter, stdin, emitted, observed >>

\* what the list subprocess did: failed, wrote no JSON array, or listed items
ListResult(cmdErr, payload) ==
    IF cmdErr THEN "cmdfail" ELSE IF payload.valid THEN "ok" ELSE "malformed"

\* fetchBitwardenItems that drops the Unmarshal error
fetchBitwardenItems_ParseErrorDropped(cmdErr, payload) ==
    IF cmdErr THEN [items |-> <<>>, err |-> TRUE]
    ELSE IF ~payload.valid THEN [items |-> <<>>, err |-> FALSE]
    ELSE [items |-> payload.items, err |-> FALSE]

\* fetchBitwardenItems: the list command's error, else the Unmarshal error
fetchBitwardenItems(cmdErr, payload) ==
    IF cmdErr THEN [items |-> <<>>, err |-> TRUE]
    ELSE IF ~payload.valid THEN [items |-> <<>>, err |-> TRUE]
    ELSE [items |-> payload.items, err |-> FALSE]

\* line 97 with the comparison off by one
HasItems_OrEqual(total) == total >= 0

\* runBulkDelete line 97: confirmation and deletion only for a non-empty listing
HasItems(total) == total > 0

\* runBulkDelete, lines 89-97 and 112
FetchItems ==
    /\ Running /\ pc = "Listing"
    /\ \E cmdErr \in BOOLEAN, payload \in Payloads :
          LET r == fetchBitwardenItems(cmdErr, payload)
          IN  /\ calls' = [calls EXCEPT !.list = @ + 1,
                                        !.listResult = ListResult(cmdErr, payload)]
              /\ IF r.err
                 THEN /\ pc' = "Aborted"
                      /\ exitStatus' = 1
                      /\ UNCHANGED << items, stats >>
                 ELSE /\ items' = r.items
                      /\ stats' = [total |-> Len(r.items), completed |-> 0]
                      /\ IF HasItems(Len(r.items))
                         THEN /\ pc' = "AwaitingConfirmation"
                              /\ UNCHANGED exitStatus
                         ELSE /\ pc' = "Done"
                              /\ exitStatus' = 0
    /\ UNCHANGED << bwInPath, options, jobs, results, wg, w, sent, worker, waiter, stdin,
                    emitted, observed, output >>

\* runBulkDelete, lines 98-101
Confirm ==
    /\ Running /\ pc = "AwaitingConfirmation"
    /\ \E in \in StdinInputs :
          /\ stdin' = in
          /\ IF confirmDeletion(in)
             THEN /\ pc' = "Deleting"
                  /\ output' = [output EXCEPT !.confirm = TRUE]
                  /\ UNCHANGED exitStatus
             ELSE /\ pc' = "Aborted"
                  /\ output' = [output EXCEPT !.confirm = TRUE, !.cancelled = TRUE]
                  /\ exitStatus' = 0
    /\ UNCHANGED << bwInPath, options, items, stats, jobs, results, wg, w, sent, worker,
                    waiter, calls, emitted, observed >>

\* ---- processItems ---------------------------------------------------------
\* channels one slot too small
ChanCap_OneShort(total) == total - 1

\* capacity of both channels, lines 197-198
ChanCap(total) == total

\* lines 197-199
MakeChannels ==
    /\ Running /\ pc = "Deleting"
    /\ jobs' = [buf |-> <<>>, cap |-> ChanCap(stats.total), closed |-> FALSE]
    /\ results' = [buf |-> <<>>, cap |-> ChanCap(stats.total), closed |-> FALSE]
    /\ wg' = 0
    /\ w' = 1
    /\ pc' = "SpawnWorkers"
    /\ UNCHANGED << bwInPath, exitStatus, options, items, stats, sent, worker, waiter,
                    stdin, calls, emitted, observed, output >>

\* line 201 starting one worker too many
SpawnCond_OneMore(n, batchSize) == n <= batchSize + 1

\* line 201 starting one worker too few
SpawnCond_OneLess(n, batchSize) == n < batchSize

\* loop condition of line 201
SpawnCond(n, batchSize) == n <= batchSize

\* lines 201-204: wg.Add(1); go deleteWorker(w, ...)
SpawnWorker ==
    /\ Running /\ pc = "SpawnWorkers"
    /\ IF SpawnCond(w, options.batchSize)
       THEN /\ wg' = wg + 1
            /\ worker' = [worker EXCEPT ![w] = [pc |-> "range", itemID |-> 0]]
            /\ w' = w + 1
            /\ UNCHANGED pc
       ELSE /\ pc' = "LoadJobs"
            /\ UNCHANGED << wg, worker, w >>
    /\ UNCHANGED << bwInPath, exitStatus, options, items, stats, jobs, results, sent,
                    waiter, stdin, calls, emitted, observed, output >>

\* a send on channel ch can proceed: there is room in the buffer
CanSend(ch) == Len(ch.buf) < ch.cap

\* lines 206-208: jobs <- item.ID, blocking while the buffer is full
LoadJob ==
    /\ Running /\ pc = "LoadJobs"
    /\ IF sent < Len(items)
       THEN /\ CanSend(jobs)
            /\ jobs' = [jobs EXCEPT !.buf = Append(@, items[sent + 1])]
            /\ sent' = sent + 1
            /\ UNCHANGED pc
       ELSE /\ pc' = "CloseJobs"
            /\ UNCHANGED << jobs, sent >>
    /\ UNCHANGED << bwInPath, exitStatus, options, items, stats, results, wg, w, worker,
                    waiter, stdin, calls, emitted, observed, output >>

\* line 209
CloseJobs ==
    /\ Running /\ pc = "CloseJobs"
    /\ jobs' = [jobs EXCEPT !.closed = TRUE]
    /\ pc' = "StartWaiter"
    /\ UNCHANGED << bwInPath, exitStatus, options, items, stats, results, wg, w, sent,
                    worker, waiter, stdin, calls, emitted, observed, output >>

\* line 211: go func() { wg.Wait(); close(results) }()
StartWaiter ==
    /\ Running /\ pc = "StartWaiter"
    /\ waiter' = "wait"
    /\ pc' = "ProcessResults"
    /\ UNCHANGED << bwInPath, exitStatus, options, items, stats, jobs, results, wg, w, sent,
                    worker, stdin, calls, emitted, observed, output >>

\* a Wait that returns at once
WaitDone_NoWait(n) == TRUE

\* wg.Wait() returns when the counter is zero
WaitDone(n) == n = 0

\* line 212
WaiterWait ==
    /\ Running /\ waiter = "wait"
    /\ WaitDone(wg)
    /\ waiter' = "close"
    /\ UNCHANGED << bwInPath, pc, exitStatus, options, items, stats, jobs, results, wg, w,
                    sent, worker, stdin, calls, emitted, observed, output >>

\* line 213
WaiterClose ==
    /\ Running /\ waiter = "close"
    /\ results' = [results EXCEPT !.closed = TRUE]
    /\ waiter' = "done"
    /\ UNCHANGED << bwInPath, pc, exitStatus, options, items, stats, jobs, wg, w, sent,
                    worker, stdin, calls, emitted, observed, output >>

\* ---- deleteWorker ---------------------------------------------------------
\* a loop that ends as soon as the channel is empty, closed or not
RangeEnds_OnEmpty(ch) == ch.buf = <<>>

\* "for itemID := range jobs" ends when the channel is closed and drained
RangeEnds(ch) == ch.closed /\ ch.buf = <<>>

\* a worker that reports the job before running the command
WorkerTake_EmitFirst(id) ==
    /\ Running /\ worker[id].pc = "range"
    /\ jobs.buf # <<>>
    /\ jobs' = [jobs EXCEPT !.buf = Tail(@)]
    /\ results' = [results EXCEPT !.buf = Append(@, Head(jobs.buf))]
    /\ emitted' = [emitted EXCEPT ![Head(jobs.buf)] = @ + 1]
    /\ worker' = [worker EXCEPT ![id] = [pc |-> "run", itemID |-> Head(jobs.buf)]]
    /\ calls' = [calls EXCEPT !.delete[Head(jobs.buf)] = @ + 1]
    /\ UNCHANGED << bwInPath, pc, exitStatus, options, items, stats, wg, w, sent,
                    waiter, stdin, observed, output >>

\* a receive that leaves the job in the queue
WorkerTake_Peek(id) ==
    /\ Running /\ worker[id].pc = "range"
    /\ jobs.buf # <<>>
    /\ worker' = [worker EXCEPT ![id] = [pc |-> "run", itemID |-> Head(jobs.buf)]]
    /\ calls' = [calls EXCEPT !.delete[Head(jobs.buf)] = @ + 1]
    /\ UNCHANGED << bwInPath, pc, exitStatus, options, items, stats, jobs, results, wg,
                    w, sent, waiter, stdin, emitted, observed, output >>

\* lines 224-233: receive one job and start "bw delete item <itemID>"
WorkerTake(id) ==
    /\ Running /\ worker[id].pc = "range"
    /\ jobs.buf # <<>>
    /\ jobs' = [jobs EXCEPT !.buf = Tail(@)]
    /\ worker' = [worker EXCEPT ![id] = [pc |-> "run", itemID |-> Head(jobs.buf)]]
    /\ calls' = [calls EXCEPT !.delete[Head(jobs.buf)] = @ + 1]
    /\ UNCHANGED << bwInPath, pc, exitStatus, options, items, stats, results, wg, w, sent,
                    waiter, stdin, emitted, observed, output >>

\* a worker that skips the send when the deletion failed
AfterRun_SkipOnError(err) == IF err THEN "range" ELSE "send"

\* where the worker goes once deleteCmd.Run() returned err, lines 233-236
AfterRun(err) == "send"

\* line 233: the subprocess exits, with or without an error
WorkerRunReturns(id) ==
    /\ Running /\ worker[id].pc = "run"
    /\ \E err \in BOOLEAN :
          /\ worker' = [worker EXCEPT ![id].pc = AfterRun(err),
                                      ![id].itemID = IF AfterRun(err) = "send" THEN @ ELSE 0]
          /\ calls' = [calls EXCEPT
                          !.returned[worker[id].itemID] = @ + 1,
                          !.failed = IF err THEN @ \cup {worker[id].itemID} ELSE @]
    /\ UNCHANGED << bwInPath, pc, exitStatus, options, items, stats, jobs, results, wg, w,
                    sent, waiter, stdin, emitted, observed, output >>

\* a worker that updates the shared counter itself
WorkerSend_Counts(id) ==
    /\ Running /\ worker[id].pc = "send"
    /\ ~results.closed /\ Len(results.buf) < results.cap
    /\ results' = [results EXCEPT !.buf = Append(@, worker[id].itemID)]
    /\ emitted' = [emitted EXCEPT ![worker[id].itemID] = @ + 1]
    /\ worker' = [worker EXCEPT ![id] = [pc |-> "range", itemID |-> 0]]
    /\ stats' = [stats EXCEPT !.completed = @ + 1]
    /\ UNCHANGED << bwInPath, pc, exitStatus, options, items, jobs, wg, w, sent, waiter,
                    stdin, calls, observed, output >>

\* line 236: results <- itemID; a send on a closed channel panics
WorkerSend(id) ==
    /\ Running /\ worker[id].pc = "send"
    /\ IF results.closed
       THEN /\ pc' = "Panic"
            /\ exitStatus' = 2
            /\ UNCHANGED << results, worker, emitted >>
       ELSE /\ CanSend(results)
            /\ results' = [results EXCEPT !.buf = Append(@, worker[id].itemID)]
            /\ emitted' = [emitted EXCEPT ![worker[id].itemID] = @ + 1]
            /\ worker' = [worker EXCEPT ![id] = [pc |-> "range", itemID |-> 0]]
            /\ UNCHANGED << pc, exitStatus >>
    /\ UNCHANGED << bwInPath, options, items, stats, jobs, wg, w, sent, waiter, stdin,
                    calls, observed, output >>

\* a worker that gives up when it finds the queue empty, closed or not
WorkerExit_OnEmpty(id) ==
    /\ Running /\ worker[id].pc = "range"
    /\ jobs.buf = <<>>
    /\ worker' = [worker EXCEPT ![id].pc = "done"]
    /\ wg' = wg - 1
    /\ UNCHANGED << bwInPath, pc, exitStatus, options, items, stats, jobs, results, w, sent,
                    waiter, stdin, calls, emitted, observed, output >>

\* a worker without the deferred wg.Done()
WorkerExit_NoDone(id) ==
    /\ Running /\ worker[id].pc = "range"
    /\ RangeEnds(jobs)
    /\ worker' = [worker EXCEPT ![id].pc = "done"]
    /\ UNCHANGED << bwInPath, pc, exitStatus, options, items, stats, jobs, results,
                    wg, w, sent, waiter, stdin, calls, emitted, observed, output >>

\* lines 223 and 237-238: the range loop ends, the deferred wg.Done() runs
WorkerExit(id) ==
    /\ Running /\ worker[id].pc = "range"
    /\ RangeEnds(jobs)
    /\ worker' = [worker EXCEPT ![id].pc = "done"]
    /\ wg' = wg - 1
    /\ UNCHANGED << bwInPath, pc, exitStatus, options, items, stats, jobs, results, w, sent,
                    waiter, stdin, calls, emitted, observed, output >>

\* ---- processResults -------------------------------------------------------
\* a counter that also counts the progress line
Increment_Twice(n) == n + 2

\* line 242
Increment(n) == n + 1

\* lines 241-244: one iteration of "for range results"
ProcessResult ==
    /\ Running /\ pc = "ProcessResults"
    /\ results.buf # <<>>
    /\ results' = [results EXCEPT !.buf = Tail(@)]
    /\ stats' = [stats EXCEPT !.completed = Increment(@)]
    /\ observed' = [observed EXCEPT ![Head(results.buf)] = @ + 1]
    /\ UNCHANGED << bwInPath, pc, exitStatus, options, items, jobs, wg, w, sent, worker,
                    waiter, stdin, calls, emitted, output >>

\* a processItems that does not wait for the consumer loop
ProcessResultsEnd_NoWait ==
    /\ Running /\ pc = "ProcessResults"
    /\ pc' = "ShowCompletion"
    /\ UNCHANGED << bwInPath, exitStatus, options, items, stats, jobs, results, wg, w, sent,
                    worker, waiter, stdin, calls, emitted, observed, output >>

\* a consumer that stops counting as soon as completed reaches total
ProcessResultsEnd_OnCount ==
    /\ Running /\ pc = "ProcessResults"
    /\ stats.completed = stats.total
    /\ pc' = "ShowCompletion"
    /\ UNCHANGED << bwInPath, exitStatus, options, items, stats, jobs, results, wg, w, sent,
                    worker, waiter, stdin, calls, emitted, observed, output >>

\* lines 241 and 245: the loop ends when results is closed and drained
ProcessResultsEnd ==
    /\ Running /\ pc = "ProcessResults"
    /\ RangeEnds(results)
    /\ pc' = "ShowCompletion"
    /\ UNCHANGED << bwInPath, exitStatus, options, items, stats, jobs, results, wg, w, sent,
                    worker, waiter, stdin, calls, emitted, observed, output >>

\* showCompletionMessage, line 217, then processItems returns nil
ShowCompletion ==
    /\ Running /\ pc = "ShowCompletion"
    /\ output' = [output EXCEPT !.complete = TRUE]
    /\ pc' = "PostSyncing"
    /\ UNCHANGED << bwInPath, exitStatus, options, items, stats, jobs, results, wg, w, sent,
                    worker, waiter, stdin, calls, emitted, observed >>

\* exit status after syncBitwarden("") returned err
AfterPostSync(err) == 0

\* runBulkDelete, lines 107-112: the final "bw sync", a failure is only a warning
PostSync ==
    /\ Running /\ pc = "PostSyncing"
    /\ calls' = [calls EXCEPT !.sync = @ + 1]
    /\ pc' = "Done"
    /\ \E err \in BOOLEAN :
          /\ exitStatus' = AfterPostSync(err)
          /\ output' = [output EXCEPT !.warnings = Warn(@, err, "final")]
    /\ UNCHANGED << bwInPath, options, items, stats, jobs, results, wg, w, sent, worker,
                    waiter, stdin, emitted, observed >>

\* ---- the system -----------------------------------------------------------
Orchestrator ==
    \/ CheckAgent \/ PreSync \/ FetchItems \/ Confirm
    \/ MakeChannels \/ SpawnWorker \/ LoadJob \/ CloseJobs \/ StartWaiter
    \/ ProcessResult \/ ProcessResultsEnd \/ ShowCompletion \/ PostSync

Waiter == WaiterWait \/ WaiterClose

Worker(id) ==
    \/ WorkerTake(id) \/ WorkerRunReturns(id) \/ WorkerSend(id) \/ WorkerExit(id)

Next == Orchestrator \/ Waiter \/ \E id \in WorkerIds : Worker(id)

Spec == Init /\ [][Next]_vars

\* the Go scheduler runs some runnable goroutine, the user answers the prompt
\* and every subprocess exits: the system never stops while a step is possible
FairSpec == Spec /\ WF_vars(Next)

TypeOK ==
    /\ pc \in { "CheckingAgent", "PreSyncing", "Listing", "AwaitingConfirmation",
                "Deleting", "SpawnWorkers", "LoadJobs", "CloseJobs", "StartWaiter",
                "ProcessResults", "ShowCompletion", "PostSyncing", "Done",
                "Aborted", "Panic" }
    /\ exitStatus \in {NoStatus, 0, 1, 2}
    /\ stats.total \in 0..MaxItems
    /\ wg \in 0..(MaxBatch + 1)

\* ---- vocabulary of the properties ------------------------------------------
\* number of items of the listing that carry identifier itemID
Occurrences(itemID) == Cardinality({i \in 1..Len(items) : items[i] = itemID})

UniqueIds == \A i, j \in 1..Len(items) : items[i] = items[j] => i = j

\* delete invocations started and not yet returned
InFlight == Cardinality({id \in WorkerIds : worker[id].pc = "run"})

NoDeleteInvoked == \A itemID \in ItemIds : calls.delete[itemID] = 0

NoWorkerStarted == \A id \in WorkerIds : worker[id].pc = "unstarted"

\* the tokens that are "y" or "yes" up to case
AffirmativeTokens ==
    { <<a>> : a \in {"y", "Y"} }
    \cup { <<a, b, c>> : a \in {"y", "Y"}, b \in {"e", "E"}, c \in {"s", "S"} }

\* the user was asked and answered anything but a lone affirmative token
Declined ==
    /\ stdin # NoInput
    /\ \/ stdin.eof
       \/ Len(stdin.line) # 1
       \/ stdin.line[1] \notin AffirmativeTokens

\* ---- C1 ---------------------------------------------------------------------
\* C1: with concurrency >= 1 and unique identifiers, a finished run has
\* completed = number of listed jobs and the consumer has observed exactly
\* one CompletionEvent for every listed identifier and none for any other.
C1_EveryJobCountedOnce ==
    (pc = "Done" /\ options.batchSize >= 1 /\ UniqueIds) =>
        /\ stats.completed = Len(items)
        /\ \A itemID \in ItemIds :
              observed[itemID] = IF itemID \in Range(items) THEN 1 ELSE 0

C1_Witness ==
    /\ pc = "Done" /\ options.batchSize = 2
    /\ items = <<1, 2>> /\ stats.completed = 2
    /\ observed[1] = 1 /\ observed[2] = 1

\* ---- C2 ---------------------------------------------------------------------
\* C2: in every reachable state the number of delete invocations in flight is
\* at most the batch size (a batch size below zero starts no worker and
\* counts as zero).
C2_InFlightBounded ==
    InFlight <= (IF options.batchSize > 0 THEN options.batchSize ELSE 0)

C2_Witness == options.batchSize = 2 /\ InFlight = 2

\* ---- C3 ---------------------------------------------------------------------
\* C3: once the user has declined (any answer but "y"/"yes" up to case, an
\* empty line, a failed read) no delete is ever invoked, completed is 0, the
\* only sync ever run is the initial one and the process has exited with 0.
C3_DeclineDoesNothing ==
    Declined =>
        /\ NoDeleteInvoked
        /\ NoWorkerStarted
        /\ stats.completed = 0
        /\ calls.sync = 1
        /\ pc = "Aborted"
        /\ exitStatus = 0

C3_Witness ==
    /\ Declined /\ pc = "Aborted" /\ exitStatus = 0
    /\ stdin.eof /\ stats.total = 2

\* ---- C4 ---------------------------------------------------------------------
\* C4: a failed delete never aborts the batch, and a finished run in which
\* some deletes failed has one CompletionEvent per failing job, one attempt
\* and one counted event per job, completed = total and exit status 0.
C4_FailuresAreLocal ==
    (calls.failed # {} /\ options.batchSize >= 1) =>
        /\ pc \notin {"Aborted", "Panic"}
        /\ exitStatus \in {NoStatus, 0}
        /\ \A itemID \in ItemIds : emitted[itemID] <= Occurrences(itemID)
        /\ pc = "Done" =>
              /\ \A itemID \in calls.failed : emitted[itemID] = Occurrences(itemID)
              /\ \A itemID \in ItemIds :
                    /\ calls.delete[itemID] = Occurrences(itemID)
                    /\ observed[itemID] = Occurrences(itemID)
              /\ stats.completed = stats.total
              /\ exitStatus = 0

C4_Witness ==
    /\ pc = "Done" /\ items = <<1, 2>> /\ calls.failed = {1}
    /\ emitted[1] = 1 /\ stats.completed = 2

\* ---- C5 ---------------------------------------------------------------------
\* C5: completed always lies in 0..total, and every step leaves it unchanged
\* or adds exactly one to it.
C5_CompletedMonotone ==
    /\ [](0 <= stats.completed /\ stats.completed <= stats.total)
    /\ [][stats'.completed = stats.completed
          \/ stats'.completed = stats.completed + 1]_vars

C5_Witness == stats.total = 2 /\ stats.completed = 2 /\ pc = "ProcessResults"

\* ---- C6 ---------------------------------------------------------------------
\* every listed job was attempted, every started worker and the closing
\* goroutine have exited, results is closed and runBulkDelete has returned
Terminated ==
    /\ pc = "Done"
    /\ \A itemID \in ItemIds : calls.returned[itemID] = Occurrences(itemID)
    /\ \A id \in WorkerIds : worker[id].pc \in {"unstarted", "done"}
    /\ waiter = "done"
    /\ results.closed /\ results.buf = <<>>

\* C6: under fair scheduling, a run that was confirmed with concurrency >= 1
\* eventually terminates: all jobs attempted, all workers exited, the sink
\* closed, the consumer loop over and the orchestrator in Done.
C6_ConfirmedRunTerminates ==
    (pc = "Deleting" /\ options.batchSize >= 1) ~> Terminated

C6_Witness == Terminated /\ options.batchSize = 2 /\ stats.total = 2 /\ wg = 0

\* ---- C7 ---------------------------------------------------------------------
\* C7: when "bw" is not in PATH the run never leaves CheckingAgent except to
\* abort with a non-zero status, and no sync, list or delete is ever invoked.
C7_MissingAgentAborts ==
    ~bwInPath =>
        /\ pc \in {"CheckingAgent", "Aborted"}
        /\ pc = "Aborted" => exitStatus \notin {NoStatus, 0}
        /\ calls.sync = 0 /\ calls.list = 0 /\ NoDeleteInvoked

C7_Witness == ~bwInPath /\ pc = "Aborted" /\ exitStatus = 1

\* ---- C8 ---------------------------------------------------------------------
\* C8: once the list subprocess has failed or written a malformed payload,
\* the run has aborted with a non-zero status, no confirmation was asked, no
\* delete is invoked and no sync beyond the initial one is run.
C8_ListingFailureIsFatal ==
    calls.listResult \in {"cmdfail", "malformed"} =>
        /\ pc = "Aborted"
        /\ exitStatus \notin {NoStatus, 0}
        /\ ~output.confirm /\ stdin = NoInput
        /\ NoDeleteInvoked /\ NoWorkerStarted
        /\ calls.sync = 1

C8_Witness == calls.listResult = "malformed" /\ pc = "Aborted" /\ exitStatus = 1

\* ---- C9 ---------------------------------------------------------------------
\* C9: once the listing has returned zero items the run is in Done with exit
\* status 0: no confirmation asked, no worker started, no delete invoked, no
\* final sync, total = completed = 0.
C9_EmptyListingSkipsEverything ==
    (calls.listResult = "ok" /\ items = <<>>) =>
        /\ pc = "Done"
        /\ exitStatus = 0
        /\ ~output.confirm /\ stdin = NoInput
        /\ NoWorkerStarted /\ NoDeleteInvoked
        /\ calls.sync = 1
        /\ stats.total = 0 /\ stats.completed = 0

C9_Witness == calls.listResult = "ok" /\ items = <<>> /\ pc = "Done"

\* ---- C10 --------------------------------------------------------------------
\* C10: for every concurrency >= 1 the final completed and the final set of
\* identifiers a delete was invoked for are determined by the job set alone
\* (the number of jobs, the set of listed identifiers), hence the same for
\* any two concurrency values.
C10_FinalCountsIgnoreConcurrency ==
    (pc = "Done" /\ options.batchSize >= 1) =>
        /\ stats.completed = Len(items)
        /\ {itemID \in ItemIds : calls.delete[itemID] > 0} = Range(items)

C10_Witness ==
    /\ pc = "Done" /\ options.batchSize = 1
    /\ Len(items) = 2 /\ stats.completed = 2 /\ calls.failed = {2}

\* ---- C11 --------------------------------------------------------------------
\* number of elements of sequence s equal to itemID
CountIn(s, itemID) == Cardinality({i \in 1..Len(s) : s[i] = itemID})

\* C11: every job put on the queue is either still queued or was taken once
\* and had delete invoked once for it (so never twice, never retried, never
\* for an identifier that is not listed), and with concurrency >= 1 a
\* finished run has invoked delete exactly once per listed job.
C11_EachJobDeletedOnce ==
    /\ \A itemID \in ItemIds :
          /\ calls.delete[itemID] + CountIn(jobs.buf, itemID)
                = CountIn(SubSeq(items, 1, sent), itemID)
          /\ calls.delete[itemID] <= Occurrences(itemID)
          /\ calls.returned[itemID] <= calls.delete[itemID]
    /\ (pc = "Done" /\ options.batchSize >= 1) =>
          \A itemID \in ItemIds : calls.delete[itemID] = Occurrences(itemID)

C11_Witness ==
    /\ options.batchSize = 2 /\ items = <<1, 2>>
    /\ worker[1].pc = "run" /\ worker[2].pc = "run"
    /\ worker[1].itemID # worker[2].itemID
    /\ calls.delete[1] = 1 /\ calls.delete[2] = 1

\* ---- C12 --------------------------------------------------------------------
\* C12: results is closed only once every started worker has exited: no
\* worker is ever about to send on a closed results (no panic), and every
\* delete that returned has its event emitted, each emitted event being
\* either buffered in results or already received by the consumer.
C12_SinkClosedAfterWorkers ==
    /\ pc # "Panic"
    /\ \A id \in WorkerIds : worker[id].pc = "send" => ~results.closed
    /\ results.closed =>
          /\ wg = 0
          /\ \A id \in WorkerIds : worker[id].pc \in {"unstarted", "done"}
          /\ \A id \in WorkerIds : id <= options.batchSize => worker[id].pc = "done"
          /\ \A itemID \in ItemIds : emitted[itemID] = calls.returned[itemID]
    /\ \A itemID \in ItemIds :
          emitted[itemID] = observed[itemID] + CountIn(results.buf, itemID)

C12_Witness ==
    /\ results.closed /\ options.batchSize = 2 /\ stats.total = 2
    /\ worker[1].pc = "done" /\ worker[2].pc = "done"
    /\ Len(results.buf) = 2 /\ pc = "ProcessResults"

\* ---- C13 --------------------------------------------------------------------
\* processResults has returned
LoopEnded == pc \in {"ShowCompletion", "PostSyncing"} \/ (pc = "Done" /\ stats.total > 0)

\* C13: with concurrency >= 1 the consumer loop is over only with
\* completed = total and results closed, and while the consumer is in the
\* loop it can leave it exactly when completed = total and results is closed:
\* not while completed < total, and not while results is open.
C13_LoopEndsWhenCountedAndClosed ==
    options.batchSize >= 1 =>
        /\ LoopEnded =>
              stats.completed = stats.total /\ results.closed /\ results.buf = <<>>
        /\ pc = "ProcessResults" =>
              ((ENABLED ProcessResultsEnd)
                  <=> (stats.completed = stats.total /\ results.closed))

C13_Witness ==
    /\ options.batchSize = 2 /\ pc = "ShowCompletion"
    /\ stats.total = 2 /\ stats.completed = 2 /\ results.closed

\* the consumer has counted everything and still waits for the close
C13_WitnessOpen ==
    /\ options.batchSize = 2 /\ pc = "ProcessResults"
    /\ stats.total = 2 /\ stats.completed = 2 /\ ~results.closed

\* ---- C14 --------------------------------------------------------------------
\* sum of f over the identifiers of S
RECURSIVE SumOver(_, _)
SumOver(f, S) ==
    IF S = {} THEN 0
    ELSE LET x == CHOOSE y \in S : TRUE IN f[x] + SumOver(f, S \ {x})

\* C14: an event is emitted only after its delete returned: always
\* completed <= events emitted <= deletes returned <= jobs taken <= total,
\* and the same chain holds for every identifier on its own.
C14_CountersOrdered ==
    /\ stats.completed <= SumOver(emitted, ItemIds)
    /\ SumOver(emitted, ItemIds) <= SumOver(calls.returned, ItemIds)
    /\ SumOver(calls.returned, ItemIds) <= SumOver(calls.delete, ItemIds)
    /\ SumOver(calls.delete, ItemIds) <= stats.total
    /\ stats.completed = SumOver(observed, ItemIds)
    /\ \A itemID \in ItemIds :
          /\ observed[itemID] <= emitted[itemID]
          /\ emitted[itemID] <= calls.returned[itemID]
          /\ calls.returned[itemID] <= calls.delete[itemID]
          /\ calls.delete[itemID] <= Occurrences(itemID)

\* all four inequalities strict at once needs three jobs; here the two
\* jobs are at different stages
C14_Witness ==
    /\ stats.total = 2 /\ stats.completed = 0
    /\ SumOver(emitted, ItemIds) = 1
    /\ SumOver(calls.returned, ItemIds) = 1
    /\ SumOver(calls.delete, ItemIds) = 2

\* ---- C15 --------------------------------------------------------------------
\* the final sync is about to be invoked, or was
AtOrAfterPostSync == pc = "PostSyncing" \/ calls.sync >= 2

\* C15: the final sync is invoked only when the deletion phase is over (all
\* started workers and the closing goroutine exited, no delete in flight,
\* results closed and drained, and completed = total for concurrency >= 1);
\* the list is invoked only after the initial sync, and workers and deletes
\* exist only after a successful list.
C15_PhasesInOrder ==
    /\ AtOrAfterPostSync =>
          /\ \A id \in WorkerIds : worker[id].pc \in {"unstarted", "done"}
          /\ InFlight = 0
          /\ wg = 0 /\ waiter = "done"
          /\ results.closed /\ results.buf = <<>>
          /\ options.batchSize >= 1 =>
                /\ stats.completed = stats.total
                /\ \A itemID \in ItemIds : calls.returned[itemID] = Occurrences(itemID)
    /\ calls.sync <= 2
    /\ (pc = "Listing" \/ calls.list >= 1) => calls.sync >= 1
    /\ (~NoWorkerStarted \/ ~NoDeleteInvoked) =>
          calls.list = 1 /\ calls.listResult = "ok" /\ calls.sync >= 1

C15_Witness ==
    /\ pc = "Done" /\ calls.sync = 2 /\ options.batchSize = 2
    /\ stats.total = 2 /\ calls.failed = {}

\* ---- C16 --------------------------------------------------------------------
\* what a sync step may change: the position, the exit status, the count of
\* syncs and the warnings
SyncFrame ==
    UNCHANGED << bwInPath, options, items, stats, jobs, results, wg, w, sent,
                 worker, waiter, stdin, emitted, observed >>

\* C16: a failed sync is only a warning. Whatever the initial sync returns,
\* the step after PreSyncing is in Listing with the process still running;
\* whatever the final sync returns, the step after PostSyncing is in Done
\* with exit status 0; neither step changes anything else, so the run
\* continues as after a successful sync.
C16_SyncFailureNotFatal ==
    /\ []("initial" \in output.warnings =>
             /\ calls.sync >= 1
             /\ pc \notin {"CheckingAgent", "PreSyncing"}
             /\ pc = "Aborted" => calls.list = 1)
    /\ []("final" \in output.warnings => pc = "Done" /\ exitStatus = 0)
    /\ [][pc = "PreSyncing" =>
             pc' = "Listing" /\ exitStatus' = NoStatus /\ SyncFrame]_vars
    /\ [][pc = "PostSyncing" =>
             pc' = "Done" /\ exitStatus' = 0 /\ SyncFrame]_vars

C16_Witness ==
    /\ output.warnings = {"initial", "final"}
    /\ pc = "Done" /\ exitStatus = 0
    /\ stats.total = 2 /\ stats.completed = 2

\* ---- C17 --------------------------------------------------------------------
\* C17: with more workers than jobs (concurrency > total >= 1) a finished
\* run has made exactly total delete invocations and all its workers have
\* exited; and a worker leaves its loop only when jobs is closed and drained
\* with every item loaded, in a step that invokes nothing.
C17_ExcessWorkersJustExit ==
    /\ []((pc = "Done" /\ stats.total >= 1 /\ options.batchSize > stats.total) =>
             /\ SumOver(calls.delete, ItemIds) = stats.total
             /\ SumOver(calls.returned, ItemIds) = stats.total
             /\ \A id \in WorkerIds : id <= options.batchSize => worker[id].pc = "done")
    /\ [][\A id \in WorkerIds :
             (worker[id].pc = "range" /\ worker'[id].pc = "done") =>
                /\ jobs.closed /\ jobs.buf = <<>>
                /\ sent = Len(items)
                /\ calls' = calls]_vars

C17_Witness ==
    /\ pc = "Done" /\ options.batchSize = 2 /\ stats.total = 1
    /\ calls.delete[1] = 1
    /\ worker[1].pc = "done" /\ worker[2].pc = "done"

\* ---- C18 --------------------------------------------------------------------
\* C18: completed has one writer. A step that changes it is a step of the
\* consumer loop (it receives one event and moves no worker, not the closing
\* goroutine, not the WaitGroup), and every step of a worker, of the closing
\* goroutine or on the WaitGroup leaves total and completed unchanged.
C18_SingleWriter ==
    [][/\ stats'.completed # stats.completed =>
             /\ pc = "ProcessResults" /\ pc' = "ProcessResults"
             /\ results.buf # <<>> /\ results'.buf = Tail(results.buf)
             /\ worker' = worker /\ waiter' = waiter /\ wg' = wg
       /\ (worker' # worker \/ waiter' # waiter \/ wg' # wg) => stats' = stats]_vars

C18_Witness ==
    /\ stats.completed = 1 /\ stats.total = 2 /\ pc = "ProcessResults"
    /\ \E id \in WorkerIds : worker[id].pc = "send"

\* ---- C19 --------------------------------------------------------------------
\* C19: once the completion message "All N items have been ..." is shown, a
\* delete has been attempted for every listed item and completed = total,
\* for every batch size the flags accept. Fails for a batch size <= 0: no
\* worker is started, results is closed at once and the message is shown
\* with completed = 0 and no delete invoked.
C19_MessageMeansAllAttempted ==
    output.complete =>
        /\ \A itemID \in ItemIds : calls.returned[itemID] = Occurrences(itemID)
        /\ stats.completed = stats.total

\* the same for the batch sizes that start a worker
C19_HoldsForPositiveBatch ==
    options.batchSize >= 1 => C19_MessageMeansAllAttempted

\* ---- C20 --------------------------------------------------------------------
\* the channels of processItems exist
ChannelsMade ==
    pc \in {"SpawnWorkers", "LoadJobs", "CloseJobs", "StartWaiter", "ProcessResults",
            "ShowCompletion", "PostSyncing"}

\* C20: both channels have capacity total and never hold more than total
\* elements, so no send blocks: while items remain to load the coordinator
\* can send the next one, whatever the workers did, and a worker that has an
\* event to emit can send it, whether or not the consumer has started.
C20_NoSendBlocks ==
    /\ ChannelsMade => jobs.cap = stats.total /\ results.cap = stats.total
    /\ Len(jobs.buf) <= stats.total
    /\ Len(results.buf) <= stats.total
    /\ pc = "LoadJobs" => ENABLED LoadJob
    /\ \A id \in WorkerIds : worker[id].pc = "send" => ENABLED WorkerSend(id)

\* every event is buffered before the consumer has started
C20_Witness ==
    /\ stats.total = 2 /\ Len(results.buf) = 2
    /\ pc = "CloseJobs" /\ ~jobs.closed

\* every job is loaded and the queue closed before any worker took one
C20_WitnessLoaded ==
    /\ stats.total = 2 /\ Len(jobs.buf) = 2 /\ jobs.closed
    /\ options.batchSize = 2 /\ SumOver(calls.delete, ItemIds) = 0

====
